---- MODULE Spec2Model ----
(***************************************************************************)
(* The HTTP views of the grader (access/views.py): the course listing     *)
(* views, the exercise dispatcher, the A+ JSON export with its type       *)
(* inheritance, and the test-result artifact kept on disk.                 *)
(*                                                                         *)
(* A Python dict is a function from its keys to its values.  The value of *)
(* "children" and "modules" is always a sequence of dicts, the value of   *)
(* "url" a tuple of strings, every other value a string.                  *)
(***************************************************************************)
EXTENDS Naturals, Sequences, FiniteSets

VARIABLES
    config,     \* the module-level ConfigParser: the courses it holds
    file,       \* SUBMISSION_PATH/test-result: [exists, content]
    resp,       \* outcome of the last request handled
    events,     \* what the last request did, in order (activate, import, call)
    hist,       \* history: inputs of earlier requests the properties refer to
    td,         \* inputs and result of a bare _type_dict call
    workers     \* concurrent test_result handlers: each one's position

vars == <<config, file, resp, events, hist, td, workers>>

(***************************************************************************)
(* dict operations                                                         *)
(***************************************************************************)
EmptyDict == [k \in {} |-> ""]

Has(d, k) == k \in DOMAIN d

\* d.get(k, default)
Get(d, k, default) == IF k \in DOMAIN d THEN d[k] ELSE default

\* a.update(b): the entries of b are written over those of a
Update(a, b) == [k \in DOMAIN a \cup DOMAIN b |-> IF k \in DOMAIN b THEN b[k] ELSE a[k]]

\* d[k] = v
SetItem(d, k, v) == [x \in DOMAIN d \cup {k} |-> IF x = k THEN v ELSE d[x]]

\* del d[k]
DelItem(d, k) == [x \in DOMAIN d \ {k} |-> d[x]]

(***************************************************************************)
(* _type_dict(dict_item, dict_types), statement by statement.  The call    *)
(* works on three objects: the new dict `base`, and the two arguments,    *)
(* which belong to the caller.  TypeDictRun gives all three after the     *)
(* call: base is returned, the arguments are what the caller still holds. *)
(***************************************************************************)
\* base = {} ; if "type" in dict_item and dict_item["type"] in dict_types:
\*     base = copy.deepcopy(dict_types[dict_item["type"]])
TypeDictBase(dict_item, dict_types) ==
    IF Has(dict_item, "type") /\ dict_item["type"] \in DOMAIN dict_types
    THEN dict_types[dict_item["type"]]
    ELSE EmptyDict

\* Mutant: base is the type dictionary itself, not a copy of it, so that
\* base.update and del write into the caller's dict_types.
TypeDictRunNoCopy(dict_item, dict_types) ==
    LET typed == Has(dict_item, "type") /\ dict_item["type"] \in DOMAIN dict_types
        base1 == Update(TypeDictBase(dict_item, dict_types), dict_item)
        base2 == IF Has(base1, "type") THEN DelItem(base1, "type") ELSE base1
    IN  [base       |-> base2,
         dict_item  |-> dict_item,
         dict_types |-> IF typed
                        THEN [dict_types EXCEPT ![dict_item["type"]] = base2]
                        ELSE dict_types]

\* Mutant: the type's defaults are written over the item's own fields.
TypeDictRunTypeWins(dict_item, dict_types) ==
    LET base1 == Update(dict_item, TypeDictBase(dict_item, dict_types))
        base2 == IF Has(base1, "type") THEN DelItem(base1, "type") ELSE base1
    IN  [base |-> base2, dict_item |-> dict_item, dict_types |-> dict_types]

TypeDictRun(dict_item, dict_types) ==
    LET base0 == TypeDictBase(dict_item, dict_types)
        \* base.update(dict_item)
        base1 == Update(base0, dict_item)
        \* if "type" in base: del base["type"]
        base2 == IF Has(base1, "type") THEN DelItem(base1, "type") ELSE base1
    IN  [base |-> base2, dict_item |-> dict_item, dict_types |-> dict_types]

_type_dict(dict_item, dict_types) == TypeDictRun(dict_item, dict_types).base

(***************************************************************************)
(* The configuration (access/config.py, ConfigParser).  It holds a list of *)
(* course roots, each the course dictionary and the exercises loaded for   *)
(* it.  None is what a failed lookup returns.                              *)
(***************************************************************************)
None == [None |-> "None"]

\* the root of the course with this key, or None
CourseRoot(cfg, course_key) ==
    IF \E i \in 1..Len(cfg) : cfg[i].data["key"] = course_key
    THEN cfg[CHOOSE i \in 1..Len(cfg) : cfg[i].data["key"] = course_key]
    ELSE None

\* config.courses()
courses(cfg) == [i \in 1..Len(cfg) |-> cfg[i].data]

\* config.course_entry(course_key)
course_entry(cfg, course_key) ==
    IF CourseRoot(cfg, course_key) = None THEN None
    ELSE CourseRoot(cfg, course_key).data

\* config.exercises(course_key): (course, exercises)
exercises(cfg, course_key) ==
    IF CourseRoot(cfg, course_key) = None THEN <<None, <<>>>>
    ELSE <<CourseRoot(cfg, course_key).data, CourseRoot(cfg, course_key).exercise_list>>

\* config.exercise_entry(course_key, exercise_key, lang): (course, exercise)
exercise_entry(cfg, course_key, exercise_key, lang) ==
    LET root == CourseRoot(cfg, course_key)
    IN  IF root = None THEN <<None, None>>
        ELSE IF \E i \in 1..Len(root.exercise_list) :
                    root.exercise_list[i]["key"] = exercise_key
        THEN <<root.data,
               root.exercise_list[CHOOSE i \in 1..Len(root.exercise_list) :
                                      root.exercise_list[i]["key"] = exercise_key]>>
        ELSE <<root.data, None>>

\* The configuration with the course dictionary of course_key replaced.
WithCourse(cfg, course_key, course) ==
    [i \in 1..Len(cfg) |->
        IF cfg[i].data["key"] = course_key THEN [cfg[i] EXCEPT !.data = course]
        ELSE cfg[i]]

(***************************************************************************)
(* aplus_json                                                              *)
(***************************************************************************)
\* request.build_absolute_uri prefixes the request's scheme and host
Host == "http://grader"
\* settings.STATIC_URL
STATIC_URL == "/static/"

\* the fields aplus_json copies from the course
CopiedFields == {"name", "description", "lang", "contact", "assistants",
                 "start", "end", "categories", "numerate_ignoring_modules"}

_copy_fields(dict_item, pick_fields) ==
    [name \in pick_fields \cap DOMAIN dict_item |-> dict_item[name]]

_filter_fields(dict_list, pick_fields) ==
    [i \in 1..Len(dict_list) |-> [name \in pick_fields |-> dict_list[i][name]]]

\* course.get(name, {}): the course's type dictionaries, or a new empty dict
CourseTypes(course, name) == Get(course, name, EmptyDict)

\* The course after a call that was handed course.get(name, {}) and left it
\* as `types`: the course's own dictionary is that object, the default {} is
\* a temporary.
PutTypes(course, name, types) ==
    IF Has(course, name) THEN SetItem(course, name, types) ELSE course

HasKey(o) == Has(o, "key")

\* Mutant: a child with "config" must also lack "static_content" to get the
\* exercise's fields; otherwise only the static url is derived.
DerivedFieldsStaticFirst(o, course, cfg) ==
    IF Has(o, "static_content")
    THEN [ok |-> TRUE,
          of |-> [url |-> <<Host, STATIC_URL, course["key"], o["static_content"]>>]]
    ELSE IF Has(o, "config")
    THEN LET exercise == exercise_entry(cfg, course["key"], o["key"], None)[2]
         IN  IF exercise = None THEN [ok |-> FALSE, of |-> EmptyDict]
             ELSE [ok |-> TRUE,
                   of |-> [title       |-> Get(exercise, "title", ""),
                           description |-> Get(exercise, "description", ""),
                           url         |-> <<Host, "exercise", course["key"], exercise["key"]>>]]
    ELSE [ok |-> TRUE, of |-> EmptyDict]

\* The dict `of` before of.update(o) (lines 142-159).  ok is FALSE when
\* exercise is None: exercise.get raises AttributeError.
DerivedFields(o, course, cfg) ==
    IF Has(o, "config")
    THEN LET exercise == exercise_entry(cfg, course["key"], o["key"], None)[2]
         IN  IF exercise = None THEN [ok |-> FALSE, of |-> EmptyDict]
             ELSE [ok |-> TRUE,
                   of |-> [title       |-> Get(exercise, "title", ""),
                           description |-> Get(exercise, "description", ""),
                           url         |-> <<Host, "exercise", course["key"], exercise["key"]>>]]
    ELSE IF Has(o, "static_content")
    THEN [ok |-> TRUE,
          of |-> [url |-> <<Host, STATIC_URL, course["key"], o["static_content"]>>]]
    ELSE [ok |-> TRUE, of |-> EmptyDict]

\* [o for o in parent["children"] if "key" in o]
KeyedChildren(parent) == SelectSeq(parent["children"], HasKey)

RECURSIVE children_recursion(_, _, _)
RECURSIVE ChildrenLoop(_, _, _, _)

\* The for loop of children_recursion over the children still to do; `course`
\* is the course dictionary as the calls so far have left it.
ChildrenLoop(todo, result, course, cfg) ==
    IF todo = <<>> THEN [ok |-> TRUE, result |-> result, course |-> course]
    ELSE
    LET o       == Head(todo)
        derived == DerivedFields(o, course, cfg)
    IN  IF ~derived.ok THEN [ok |-> FALSE, result |-> result, course |-> course]
        ELSE
        LET of1 == Update(derived.of, o)
            sub == children_recursion(o, course, cfg)
        IN  IF ~sub.ok THEN [ok |-> FALSE, result |-> result, course |-> sub.course]
            ELSE
            LET of2 == SetItem(of1, "children", sub.result)
                run == TypeDictRun(of2, CourseTypes(sub.course, "exercise_types"))
            IN  ChildrenLoop(Tail(todo), Append(result, run.base),
                             PutTypes(sub.course, "exercise_types", run.dict_types), cfg)

children_recursion(parent, course, cfg) ==
    IF ~Has(parent, "children") THEN [ok |-> TRUE, result |-> <<>>, course |-> course]
    ELSE ChildrenLoop(KeyedChildren(parent), <<>>, course, cfg)

\* Mutant: the module keeps the "children" its type or entry gave it when
\* the recursion returns nothing.
ModuleWithChildrenIfAny(mf, children) ==
    IF children = <<>> /\ Has(mf, "children") THEN mf ELSE SetItem(mf, "children", children)

\* mf["children"] = children_recursion(m)
ModuleWithChildren(mf, children) == SetItem(mf, "children", children)

RECURSIVE ModulesLoop(_, _, _, _)

\* The for loop over course["modules"] from module i on.
ModulesLoop(i, modules, course, cfg) ==
    IF i > Len(course["modules"]) THEN [ok |-> TRUE, result |-> modules, course |-> course]
    ELSE
    LET m       == course["modules"][i]
        run     == TypeDictRun(m, CourseTypes(course, "module_types"))
        course1 == PutTypes([course EXCEPT !["modules"][i] = run.dict_item],
                            "module_types", run.dict_types)
        sub     == children_recursion(course1["modules"][i], course1, cfg)
    IN  IF ~sub.ok THEN [ok |-> FALSE, result |-> modules, course |-> sub.course]
        ELSE ModulesLoop(i + 1, Append(modules, ModuleWithChildren(run.base, sub.result)),
                         sub.course, cfg)

\* The whole view: the response, and the configuration as the view leaves it.
aplus_json(cfg, course_key) ==
    LET course == course_entry(cfg, course_key)
    IN  IF course = None
        THEN [resp |-> [kind |-> "Http404", body |-> None], config |-> cfg]
        ELSE
        LET data == _copy_fields(course, CopiedFields)
            loop == IF Has(course, "modules") THEN ModulesLoop(1, <<>>, course, cfg)
                    ELSE [ok |-> TRUE, result |-> <<>>, course |-> course]
        IN  IF loop.ok
            THEN [resp   |-> [kind |-> "JsonResponse",
                              body |-> SetItem(data, "modules", loop.result)],
                  config |-> WithCourse(cfg, course_key, loop.course)]
            ELSE [resp   |-> [kind |-> "AttributeError", body |-> None],
                  config |-> WithCourse(cfg, course_key, loop.course)]

(***************************************************************************)
(* The configurations the model starts from.  A course tree has three      *)
(* levels below the course: modules, their children, and the children of   *)
(* those.  MaxChildren bounds the length of a "children" list.             *)
(***************************************************************************)
MaxChildren == 2

\* every dict of Ds, and every dict of Ds with key k set to a value of Vs
WithOpt(Ds, k, Vs) == Ds \cup {SetItem(d, k, v) : d \in Ds, v \in Vs}

\* sequences over S of length at most n
Lists(S, n) == UNION {[1..k -> S] : k \in 0..n}

\* course["exercise_types"] and course["module_types"]
ExerciseTypes ==
    [T1 |-> [title |-> "type title", points |-> "type points",
             url |-> <<"type-url">>, type |-> "T0",
             children |-> <<[key |-> "ghost"]>>]]

ModuleTypes ==
    [M1 |-> [points |-> "module type points", type |-> "M0",
             children |-> <<[key |-> "ghost"]>>]]

\* the exercises the configuration has loaded for course c1: e1 with a title
\* and a description, e2 without; there is no exercise e3
ExerciseList ==
    << [key |-> "e1", title |-> "Exercise 1", description |-> "First",
        view_type |-> "access.types.stdsync.acceptPost"],
       [key |-> "e2", view_type |-> "no.such.view"] >>

\* one child entry with every combination of the fields the merge reads
RichChildren ==
    WithOpt(WithOpt(WithOpt(WithOpt(WithOpt(WithOpt({EmptyDict},
        "key", {"e1", "e2", "e3"}),
        "config", {"exercise.yaml"}),
        "static_content", {"index.html"}),
        "type", {"T1", "TX"}),
        "title", {"own title"}),
        "url", {<<"own-url">>})

\* trees: few fields, every shape of nesting
GrandChildren == {[title |-> "no key"], [key |-> "e1", type |-> "T1"]}
KeyedChild    == [key |-> "e2", type |-> "T1"]
UnkeyedChild  == [title |-> "no key", type |-> "T1"]
\* a child without a key carries no children or one fixed list of them
ChildNodes    ==
       {KeyedChild, UnkeyedChild,
        SetItem(UnkeyedChild, "children", <<[key |-> "e1", type |-> "T1"]>>)}
  \cup {SetItem(KeyedChild, "children", l) : l \in Lists(GrandChildren, MaxChildren)}

PlainModule == [name |-> "plain module", type |-> "M1"]

ModuleLists ==
       {<<PlainModule>>}
  \cup {<<[name |-> "m1", type |-> "M1", children |-> <<c>>]>> : c \in RichChildren}
  \cup {<<[name |-> "m1", type |-> "MX", children |-> l]>> :
            l \in Lists(ChildNodes, MaxChildren)}
  \cup {<<PlainModule, [name |-> "m2", points |-> "own points", children |-> l]>> :
            l \in Lists(ChildNodes, MaxChildren)}

CourseBase ==
    [key |-> "c1", name |-> "Course 1", exercise_types |-> ExerciseTypes,
     module_types |-> ModuleTypes]

\* the course dictionaries of c1
TreeCourses ==
       {SetItem(CourseBase, "modules", ms) : ms \in ModuleLists}
  \cup {CourseBase, [key |-> "c1", name |-> "Course 1", lang |-> "sv",
                     modules |-> <<PlainModule,
                                   [name |-> "m1", children |-> <<[key |-> "e1", type |-> "T1"]>>]>>]}

CourseKeys == {"c1", "zz"}

\* before the first request
NoResp == [view |-> "none", args |-> None, kind |-> "none", body |-> None]

NoHist == [config0 |-> <<>>, json |-> None, posted |-> None]

InitJson ==
    /\ \E c \in TreeCourses : config = <<[data |-> c, exercise_list |-> ExerciseList]>>
    /\ file = [exists |-> FALSE, content |-> <<>>]
    /\ resp = NoResp
    /\ events = <<>>
    /\ hist = [NoHist EXCEPT !.config0 = config]
    /\ td = None
    /\ workers = None

\* one aplus_json request
AplusJson(course_key) ==
    LET r == aplus_json(config, course_key)
    IN  /\ config' = r.config
        /\ resp' = [view |-> "aplus_json", args |-> [course_key |-> course_key],
                    kind |-> r.resp.kind, body |-> r.resp.body]
        /\ events' = <<>>
        /\ hist' = IF r.resp.kind # "JsonResponse" THEN hist
                   ELSE IF hist.json = None
                   THEN [hist EXCEPT !.json = [body |-> r.resp.body, again |-> FALSE]]
                   ELSE [hist EXCEPT !.json.again = TRUE]
        /\ UNCHANGED <<file, td, workers>>

NextJson == \E course_key \in CourseKeys : AplusJson(course_key)

SpecJson == InitJson /\ [][NextJson]_vars

(***************************************************************************)
(* Properties of aplus_json.  The input is the course as the configuration *)
(* held it at the start (hist.config0), the output the response body.      *)
(***************************************************************************)
InputCourse == hist.config0[1].data

GotJson == resp.view = "aplus_json" /\ resp.kind = "JsonResponse"

\* the children of an input node that the export is to show
ExportedChildren(node) ==
    IF "children" \in DOMAIN node
    THEN SelectSeq(node["children"], LAMBDA c : "key" \in DOMAIN c)
    ELSE <<>>

RECURSIVE Mirrors(_, _)
\* out is the export of the input node: its children are the input's keyed
\* children in order, and so on below; no "type" anywhere
Mirrors(node, out) ==
    /\ "type" \notin DOMAIN out
    /\ "children" \in DOMAIN out
    /\ Len(out["children"]) = Len(ExportedChildren(node))
    /\ \A j \in 1..Len(ExportedChildren(node)) :
          /\ out["children"][j]["key"] = ExportedChildren(node)[j]["key"]
          /\ Mirrors(ExportedChildren(node)[j], out["children"][j])

\* C4: the response mirrors the course tree: one module entry per course
\* module in order, at every level exactly the keyed children in order, a
\* "children" list on every node (empty when the input has none), no "type".
C4_MirrorsTree ==
    GotJson =>
        LET ms  == IF "modules" \in DOMAIN InputCourse THEN InputCourse["modules"] ELSE <<>>
            out == resp.body["modules"]
        IN  /\ Len(out) = Len(ms)
            /\ \A i \in 1..Len(ms) :
                  /\ out[i]["name"] = ms[i]["name"]
                  /\ Mirrors(ms[i], out[i])

\* C4 witness: a response with two modules, the first without children, the
\* second with a keyless child left out and a nested keyed grandchild kept.
C4_Witness ==
    /\ GotJson
    /\ Len(resp.body["modules"]) = 2
    /\ resp.body["modules"][1]["children"] = <<>>
    /\ Len(InputCourse["modules"][2]["children"]) = 2
    /\ Len(resp.body["modules"][2]["children"]) = 1
    /\ Len(resp.body["modules"][2]["children"][1]["children"]) = 1
    /\ Len(ExportedChildren(InputCourse["modules"][2])[1]["children"]) = 2

\* the exercise the configuration holds for a child's key
ExerciseOf(o) ==
    CHOOSE e \in {hist.config0[1].exercise_list[i] :
                    i \in 1..Len(hist.config0[1].exercise_list)} : e["key"] = o["key"]

\* the fields derived for a child entry, as the claim words them
ClaimDerived(o) ==
    IF "config" \in DOMAIN o
    THEN [title       |-> IF "title" \in DOMAIN ExerciseOf(o)
                          THEN ExerciseOf(o)["title"] ELSE "",
          description |-> IF "description" \in DOMAIN ExerciseOf(o)
                          THEN ExerciseOf(o)["description"] ELSE "",
          url         |-> <<Host, "exercise", InputCourse["key"], o["key"]>>]
    ELSE IF "static_content" \in DOMAIN o
    THEN [url |-> <<Host, STATIC_URL, InputCourse["key"], o["static_content"]>>]
    ELSE EmptyDict

\* the defaults of a child's exercise type
ClaimTypeDefaults(o) ==
    IF /\ "type" \in DOMAIN o
       /\ "exercise_types" \in DOMAIN InputCourse
       /\ o["type"] \in DOMAIN InputCourse["exercise_types"]
    THEN InputCourse["exercise_types"][o["type"]]
    ELSE EmptyDict

\* out carries, for every field but "type" and "children", the child's own
\* value, else the derived one, else the type's default, else nothing
Layered(o, out) ==
    \A k \in (DOMAIN o \cup DOMAIN out \cup DOMAIN ClaimDerived(o)
                \cup DOMAIN ClaimTypeDefaults(o)) \ {"type", "children"} :
        IF k \in DOMAIN o THEN k \in DOMAIN out /\ out[k] = o[k]
        ELSE IF k \in DOMAIN ClaimDerived(o)
        THEN k \in DOMAIN out /\ out[k] = ClaimDerived(o)[k]
        ELSE IF k \in DOMAIN ClaimTypeDefaults(o)
        THEN k \in DOMAIN out /\ out[k] = ClaimTypeDefaults(o)[k]
        ELSE k \notin DOMAIN out

RECURSIVE LayeredBelow(_, _)
LayeredBelow(node, out) ==
    /\ Len(out["children"]) = Len(ExportedChildren(node))
    /\ \A j \in 1..Len(ExportedChildren(node)) :
          /\ Layered(ExportedChildren(node)[j], out["children"][j])
          /\ LayeredBelow(ExportedChildren(node)[j], out["children"][j])

\* C7: every exported child is merged from three layers: its own fields
\* over the derived fields (title, description, url of its exercise when it
\* has "config"; the static url when it has "static_content" and no
\* "config"; none otherwise) over the defaults of its exercise type.
C7_ThreeLayers ==
    GotJson =>
        \A i \in 1..Len(resp.body["modules"]) :
            LayeredBelow(InputCourse["modules"][i], resp.body["modules"][i])

\* C7 witness: a child with "config", "static_content", an own title and a
\* known type: the title is its own, the description and url come from the
\* exercise, the points from the type.
C7_Witness ==
    /\ GotJson
    /\ Len(resp.body["modules"]) = 1
    /\ Len(resp.body["modules"][1]["children"]) = 1
    /\ LET o   == InputCourse["modules"][1]["children"][1]
           out == resp.body["modules"][1]["children"][1]
       IN  /\ DOMAIN o = {"key", "config", "static_content", "type", "title"}
           /\ o["type"] = "T1"
           /\ out["title"] = "own title"
           /\ out["description"] = "First"
           /\ out["url"] = <<Host, "exercise", "c1", "e1">>
           /\ out["points"] = "type points"

\* C10 (the claim as worded): a request for an existing course ends with a
\* JSON response; Http404, for an unknown course, is the only error outcome.
C10_JsonOr404 ==
    resp.view = "aplus_json" =>
        IF \E i \in 1..Len(hist.config0) :
              hist.config0[i].data["key"] = resp.args.course_key
        THEN resp.kind = "JsonResponse"
        ELSE resp.kind = "Http404"

(***************************************************************************)
(* _type_dict on its own: every item and every types mapping over a few    *)
(* keys and values.                                                        *)
(***************************************************************************)
TdItems ==
    WithOpt(WithOpt(WithOpt({EmptyDict},
        "type", {"T1", "T2", "TX"}), "a", {"own a"}), "b", {"own b"})

TdTypeDicts ==
    WithOpt(WithOpt(WithOpt({EmptyDict},
        "type", {"T0"}), "a", {"default a"}), "c", {"default c"})

TdTypes == UNION {[S -> TdTypeDicts] : S \in SUBSET {"T1", "T2"}}

InitTypeDict ==
    /\ \E item \in TdItems, types \in TdTypes :
          td = [dict_item |-> item, dict_types |-> types, done |-> FALSE, result |-> None]
    /\ config = <<>>
    /\ file = [exists |-> FALSE, content |-> <<>>]
    /\ resp = NoResp
    /\ events = <<>>
    /\ hist = NoHist
    /\ workers = None

\* result = _type_dict(dict_item, dict_types)
TypeDictCall ==
    /\ ~td.done
    /\ td' = [td EXCEPT !.done = TRUE,
                        !.result = _type_dict(td.dict_item, td.dict_types)]
    /\ UNCHANGED <<config, file, resp, events, hist, workers>>

NextTypeDict == TypeDictCall

SpecTypeDict == InitTypeDict /\ [][NextTypeDict]_vars

\* the item's type dictionary, when the item names one that exists
TdInherited ==
    IF "type" \in DOMAIN td.dict_item /\ td.dict_item["type"] \in DOMAIN td.dict_types
    THEN td.dict_types[td.dict_item["type"]]
    ELSE EmptyDict

\* C3: the result has no "type"; every other key has the item's value if the
\* item has the key, else the value of the item's type dictionary if there is
\* one and it has the key, else the key is absent.  Without a type known to
\* types the result is the item without its "type".
C3_TypeInheritance ==
    td.done =>
        /\ "type" \notin DOMAIN td.result
        /\ \A k \in (DOMAIN td.result \cup DOMAIN td.dict_item \cup DOMAIN TdInherited)
                        \ {"type"} :
              IF k \in DOMAIN td.dict_item
              THEN k \in DOMAIN td.result /\ td.result[k] = td.dict_item[k]
              ELSE IF k \in DOMAIN TdInherited
              THEN k \in DOMAIN td.result /\ td.result[k] = TdInherited[k]
              ELSE k \notin DOMAIN td.result
        /\ (("type" \notin DOMAIN td.dict_item) \/ (td.dict_item["type"] \notin DOMAIN td.dict_types))
              => td.result = [k \in DOMAIN td.dict_item \ {"type"} |-> td.dict_item[k]]

\* C3 witness: an item of type T1 with its own "a"; T1 carries "type", "a"
\* and "c": the result has the item's a and the type's c.
C3_Witness ==
    /\ td.done
    /\ td.dict_item = [type |-> "T1", a |-> "own a"]
    /\ "T1" \in DOMAIN td.dict_types
    /\ td.dict_types["T1"] = [type |-> "T0", a |-> "default a", c |-> "default c"]
    /\ td.result = [a |-> "own a", c |-> "default c"]

(***************************************************************************)
(* index, course, exercise, ajax_submit                                    *)
(***************************************************************************)
\* request.GET.get(name, None) when the parameter is missing
NoParam == "None"

\* `not lang`: None and the empty string
Falsy(str) == str = NoParam \/ str = ""

\* the paths import_by_path can import; any other raises ImproperlyConfigured
ImportableViews == {"access.types.stdsync.acceptPost"}

\* render(request, template, context)
render(template, context) ==
    [kind |-> "HttpResponse", body |-> [template |-> template, context |-> context]]

\* every entry of dict_list has every picked field (else KeyError)
CanFilter(dict_list, pick_fields) ==
    \A i \in 1..Len(dict_list) : pick_fields \subseteq DOMAIN dict_list[i]

index(cfg, is_ajax) ==
    IF is_ajax
    THEN IF CanFilter(courses(cfg), {"key", "name"})
         THEN [kind |-> "JsonResponse",
               body |-> [ready |-> TRUE,
                         courses |-> _filter_fields(courses(cfg), {"key", "name"})]]
         ELSE [kind |-> "KeyError", body |-> None]
    ELSE render("access/ready.html", [courses |-> courses(cfg)])

course(cfg, is_ajax, course_key) ==
    LET found == exercises(cfg, course_key)
    IN  IF found[1] = None THEN [kind |-> "Http404", body |-> None]
        ELSE IF is_ajax
        THEN IF CanFilter(found[2], {"key", "title"})
             THEN [kind |-> "JsonResponse",
                   body |-> [ready |-> TRUE, course_name |-> found[1]["name"],
                             exercises |-> _filter_fields(found[2], {"key", "title"})]]
             ELSE [kind |-> "KeyError", body |-> None]
        ELSE render("access/course.html",
                    [course |-> found[1], exercises |-> found[2],
                     plus_config_url |-> <<Host, "aplus_json", found[1]["key"]>>])

\* the language exercise activates (lines 87-91)
ExerciseLang(lang, course_dict) ==
    IF Falsy(lang)
    THEN IF Has(course_dict, "lang") THEN course_dict["lang"] ELSE "en"
    ELSE lang

\* Mutant: the language is activated before the lookup is checked.
ExerciseNotFoundActivates(lang) == <<[ev |-> "activate", arg |-> lang]>>

\* what exercise has done when it raises Http404 (line 84): nothing
ExerciseNotFound(lang) == <<>>

\* Mutant: the handler is imported first, the language activated after.
ExerciseStepsImportFirst(lang, view_type) ==
    << [ev |-> "import", arg |-> view_type], [ev |-> "activate", arg |-> lang] >>

\* lines 92-97: translation.activate(lang), then import_by_path(view_type)
ExerciseSteps(lang, view_type) ==
    << [ev |-> "activate", arg |-> lang], [ev |-> "import", arg |-> view_type] >>

\* The whole view: its outcome and what it did on the way, in order.
exercise(cfg, get, course_key, exercise_key) ==
    LET post_url == get.post_url
        found    == exercise_entry(cfg, course_key, exercise_key, get.lang)
    IN  IF found[1] = None \/ found[2] = None
        THEN [kind |-> "Http404", body |-> None, events |-> ExerciseNotFound(get.lang)]
        ELSE
        LET lang  == ExerciseLang(get.lang, found[1])
            steps == ExerciseSteps(lang, found[2]["view_type"])
        IN  IF found[2]["view_type"] \notin ImportableViews
            THEN [kind |-> "ConfigError", body |-> None, events |-> steps]
            ELSE [kind   |-> "exview",
                  body   |-> [view |-> found[2]["view_type"], request |-> get,
                              course |-> found[1], exercise |-> found[2],
                              post_url |-> post_url],
                  events |-> Append(steps, [ev |-> "call", arg |-> found[2]["view_type"]])]

ajax_submit == [kind |-> "HttpResponse", body |-> "bla"]

(***************************************************************************)
(* test_result and the file SUBMISSION_PATH/test-result.  A text is a      *)
(* sequence of tokens; json.dumps writes an object as                      *)
(*   { key : value , key : value }                                         *)
(***************************************************************************)
NoResultText == <<"No test result received yet.">>

\* request.POST as json.dumps sees it: the field names in order, each with
\* the value QueryDict's item access gives (the last one posted).
\* vals[key] = value
SetPair(pairs, key, value) ==
    IF \E i \in 1..Len(pairs) : pairs[i][1] = key
    THEN [i \in 1..Len(pairs) |-> IF pairs[i][1] = key THEN <<key, value>> ELSE pairs[i]]
    ELSE Append(pairs, <<key, value>>)

RECURSIVE JsonMembers(_)
JsonMembers(pairs) ==
    IF pairs = <<>> THEN <<>>
    ELSE IF Len(pairs) = 1 THEN <<pairs[1][1], ":", pairs[1][2]>>
    ELSE <<pairs[1][1], ":", pairs[1][2], ",">> \o JsonMembers(Tail(pairs))

\* json.dumps(vals)
JsonDumps(pairs) == <<"{">> \o JsonMembers(pairs) \o <<"}">>

\* Mutant: the file is opened for update without truncating it ('r+').
OpenWriteKeeping(f) == [exists |-> TRUE, content |-> f.content]

\* open(file_path, 'w'): creates the file or truncates it
OpenWrite(f) == [exists |-> TRUE, content |-> <<>>]

\* f.write(data) at offset 0 of the open file, flushed when it is closed:
\* the bytes written replace what was at their place
WriteAt0(f, data) ==
    [exists  |-> TRUE,
     content |-> data \o SubSeq(f.content, Len(data) + 1, Len(f.content))]

\* result or 'No test result received yet.'
ResultOrDefault(result) ==
    IF result = None \/ result = <<>> THEN NoResultText ELSE result

\* Mutant: the result is read from a file opened with 'w+'.
ReadResultTruncating(f) ==
    IF f.exists THEN [file |-> OpenWrite(f), result |-> <<>>]
    ELSE [file |-> f, result |-> None]

\* lines 204-207: result = None; if the file exists, read it
ReadResult(f) ==
    IF f.exists THEN [file |-> f, result |-> f.content]
    ELSE [file |-> f, result |-> None]

\* The whole view, for one request served alone.
test_result(f, method, form, now) ==
    IF method = "POST"
    THEN LET vals == SetPair(form, "time", now)
         IN  [file |-> WriteAt0(OpenWrite(f), JsonDumps(vals)),
              kind |-> "JsonResponse", body |-> [success |-> TRUE]]
    ELSE [file |-> ReadResult(f).file,
          kind |-> "HttpResponse", body |-> ResultOrDefault(ReadResult(f).result)]

(***************************************************************************)
(* The requests of the model                                               *)
(***************************************************************************)
MaxFields == 2

Methods    == {"POST", "GET", "HEAD"}
FormKeys   == {"points", "feedback", "time"}
FormValues == {"10", "20"}
Times      == {"12:00", "12:01"}

\* request.POST: at most MaxFields fields with distinct names, in order
Forms ==
    {form \in Lists(FormKeys \X FormValues, MaxFields) :
        \A i, j \in 1..Len(form) : i # j => form[i][1] # form[j][1]}

Langs        == {NoParam, "", "fi"}
PostUrls     == {NoParam, "http://plus/submit"}
GetParams    == [lang : Langs, post_url : PostUrls]
ExerciseKeys == {"e1", "e2", "e3"}

\* a few of the course trees, with and without a course language
ServedCourses ==
    {c \in TreeCourses :
        \/ ~Has(c, "modules")
        \/ Has(c, "lang")
        \/ /\ Len(c["modules"]) = 1
           /\ Has(c["modules"][1], "children")
           /\ c["modules"][1]["children"] \in
                 { <<[key |-> "e1", config |-> "exercise.yaml", type |-> "T1",
                      title |-> "own title"]>>,
                   <<[key |-> "e2", static_content |-> "index.html"]>> }}

Init ==
    /\ \E c \in ServedCourses :
          config = <<[data |-> c, exercise_list |-> ExerciseList]>>
    /\ file = [exists |-> FALSE, content |-> <<>>]
    /\ resp = NoResp
    /\ events = <<>>
    /\ hist = [NoHist EXCEPT !.config0 = config]
    /\ td = None
    /\ workers = None

Index(is_ajax) ==
    /\ resp' = [view |-> "index", args |-> [is_ajax |-> is_ajax],
                kind |-> index(config, is_ajax).kind, body |-> index(config, is_ajax).body]
    /\ events' = <<>>
    /\ UNCHANGED <<config, file, hist, td, workers>>

Course(is_ajax, course_key) ==
    LET r == course(config, is_ajax, course_key)
    IN  /\ resp' = [view |-> "course", args |-> [is_ajax |-> is_ajax, course_key |-> course_key],
                    kind |-> r.kind, body |-> r.body]
        /\ events' = <<>>
        /\ UNCHANGED <<config, file, hist, td, workers>>

Exercise(get, course_key, exercise_key) ==
    LET r == exercise(config, get, course_key, exercise_key)
    IN  /\ resp' = [view |-> "exercise",
                    args |-> [get |-> get, course_key |-> course_key,
                              exercise_key |-> exercise_key],
                    kind |-> r.kind, body |-> r.body]
        /\ events' = r.events
        /\ UNCHANGED <<config, file, hist, td, workers>>

AjaxSubmit ==
    /\ resp' = [view |-> "ajax_submit", args |-> None,
                kind |-> ajax_submit.kind, body |-> ajax_submit.body]
    /\ events' = <<>>
    /\ UNCHANGED <<config, file, hist, td, workers>>

TestResult(method, form, now) ==
    LET r == test_result(file, method, form, now)
    IN  /\ file' = r.file
        /\ resp' = [view |-> "test_result", args |-> [method |-> method],
                    kind |-> r.kind, body |-> r.body]
        /\ events' = <<>>
        /\ hist' = IF method = "POST"
                   THEN [hist EXCEPT !.posted = [form |-> form, now |-> now,
                                                 replaced |-> file.content # <<>>]]
                   ELSE hist
        /\ UNCHANGED <<config, td, workers>>

Next ==
    \/ \E is_ajax \in BOOLEAN : Index(is_ajax)
    \/ \E is_ajax \in BOOLEAN, course_key \in CourseKeys : Course(is_ajax, course_key)
    \/ \E get \in GetParams, course_key \in CourseKeys, exercise_key \in ExerciseKeys :
          Exercise(get, course_key, exercise_key)
    \/ AjaxSubmit
    \/ \E course_key \in CourseKeys : AplusJson(course_key)

\* the views that read the configuration, one request after another
Spec == Init /\ [][Next]_vars

\* at the start the file is absent, or was left empty by a POST that died
\* between opening the file and writing it
InitResult ==
    /\ config = <<>>
    /\ file \in {[exists |-> FALSE, content |-> <<>>], [exists |-> TRUE, content |-> <<>>]}
    /\ resp = NoResp
    /\ events = <<>>
    /\ hist = NoHist
    /\ td = None
    /\ workers = None

NextResult ==
    \/ \E form \in Forms, now \in Times : TestResult("POST", form, now)
    \/ \E method \in Methods \ {"POST"} : TestResult(method, <<>>, "")

\* test_result requests, one after another
SpecResult == InitResult /\ [][NextResult]_vars

(***************************************************************************)
(* Properties of test_result, one request after another                    *)
(***************************************************************************)
\* The object a text spells, or None when the text is not one object
\*   { key : value , ... , key : value }   with distinct keys.
JsonLoads(text) ==
    LET n == (Len(text) - 1) \div 4
    IN  IF /\ Len(text) >= 5
           /\ Len(text) = 4 * n + 1
           /\ text[1] = "{"
           /\ text[Len(text)] = "}"
           /\ \A i \in 1..n : text[4 * i - 1] = ":"
           /\ \A i \in 1..(n - 1) : text[4 * i + 1] = ","
           /\ \A i, j \in 1..n : i # j => text[4 * i - 2] # text[4 * j - 2]
        THEN [k \in {text[4 * i - 2] : i \in 1..n} |->
                 text[4 * (CHOOSE i \in 1..n : text[4 * i - 2] = k)]]
        ELSE None

\* the values of the most recent POST: its form values and the time added
PostedVals ==
    LET form == hist.posted.form
    IN  [k \in {form[i][1] : i \in 1..Len(form)} \cup {"time"} |->
            IF k = "time" THEN hist.posted.now
            ELSE form[CHOOSE i \in 1..Len(form) : form[i][1] = k][2]]

\* C1: once a POST has been served, the file holds exactly the values of the
\* most recent POST (its form values and the added time), a GET answers
\* them and nothing of an earlier POST, and a POST answers {"success": true}.
C1_SingleArtifact ==
    hist.posted # None =>
        /\ file.exists
        /\ JsonLoads(file.content) = PostedVals
        /\ resp.view = "test_result"
        /\ IF resp.args.method = "POST"
           THEN resp.kind = "JsonResponse" /\ resp.body = [success |-> TRUE]
           ELSE resp.kind = "HttpResponse" /\ JsonLoads(resp.body) = PostedVals

\* C1 witness: a GET after a POST that replaced a stored result with a
\* shorter one.
C1_Witness ==
    /\ hist.posted # None
    /\ hist.posted.replaced
    /\ hist.posted.form = <<>>
    /\ resp.view = "test_result"
    /\ resp.args.method = "GET"
    /\ resp.body = <<"{", "time", ":", "12:01", "}">>

\* C2: a request that is not a POST leaves the file as it is, and answers
\* its content when it exists and is not empty, the text 'No test result
\* received yet.' otherwise.
C2_NonPostKeepsArtifact ==
    [][(resp'.view = "test_result" /\ resp'.args.method # "POST") =>
          /\ file' = file
          /\ resp'.kind = "HttpResponse"
          /\ resp'.body = IF file.exists /\ file.content # <<>>
                          THEN file.content
                          ELSE <<"No test result received yet.">>]_vars

\* C2 witness: a HEAD request answered with the stored result.
C2_Witness ==
    /\ resp.view = "test_result"
    /\ resp.args.method = "HEAD"
    /\ file.exists
    /\ file.content # <<>>
    /\ resp.body = file.content

(***************************************************************************)
(* Properties of the views that read the configuration                     *)
(***************************************************************************)
KnownCourse(course_key) ==
    \E i \in 1..Len(hist.config0) : hist.config0[i].data["key"] = course_key

KnownExercise(course_key, exercise_key) ==
    \E i \in 1..Len(hist.config0) :
        /\ hist.config0[i].data["key"] = course_key
        /\ \E j \in 1..Len(hist.config0[i].exercise_list) :
              hist.config0[i].exercise_list[j]["key"] = exercise_key

\* the last request named a course, or an exercise, the configuration lacks
UnknownKeys ==
    \/ /\ resp.view \in {"course", "aplus_json"}
       /\ ~KnownCourse(resp.args.course_key)
    \/ /\ resp.view = "exercise"
       /\ ~KnownExercise(resp.args.course_key, resp.args.exercise_key)

\* C5: a request with an unknown course key (course, aplus_json, exercise)
\* or an unknown exercise key (exercise) ends in Http404: no language was
\* activated, no view imported or called, no response body produced.
C5_UnknownKeys404 ==
    UnknownKeys => resp.kind = "Http404" /\ events = <<>> /\ resp.body = None

\* C5 witness: exercise for a known course and an unknown exercise, with a
\* language in the request.
C5_Witness ==
    /\ resp.view = "exercise"
    /\ resp.args.course_key = "c1"
    /\ resp.args.exercise_key = "e3"
    /\ resp.args.get.lang = "fi"
    /\ resp.kind = "Http404"

\* the course and exercise the last exercise request named
AskedCourse == hist.config0[1].data
AskedExercise ==
    hist.config0[1].exercise_list[
        CHOOSE j \in 1..Len(hist.config0[1].exercise_list) :
            hist.config0[1].exercise_list[j]["key"] = resp.args.exercise_key]

\* C6: for an existing course and exercise, exercise first activates the
\* request's lang if not empty, else the course's lang if it has one, else
\* "en"; then imports the exercise's view_type; then calls the handler and
\* returns its result for (request, course, exercise, post_url).  If the
\* import fails it raises ConfigError and calls no handler.
C6_DispatchOrder ==
    (resp.view = "exercise" /\ ~UnknownKeys) =>
        /\ Len(events) >= 2
        /\ events[1] = [ev  |-> "activate",
                        arg |-> IF resp.args.get.lang \notin {"None", ""}
                                THEN resp.args.get.lang
                                ELSE IF "lang" \in DOMAIN AskedCourse
                                THEN AskedCourse["lang"]
                                ELSE "en"]
        /\ events[2] = [ev |-> "import", arg |-> AskedExercise["view_type"]]
        /\ IF AskedExercise["view_type"] \in ImportableViews
           THEN /\ events = <<events[1], events[2],
                              [ev |-> "call", arg |-> AskedExercise["view_type"]]>>
                /\ resp.kind = "exview"
                /\ resp.body = [view |-> AskedExercise["view_type"],
                                request |-> resp.args.get, course |-> AskedCourse,
                                exercise |-> AskedExercise,
                                post_url |-> resp.args.get.post_url]
           ELSE /\ events = <<events[1], events[2]>>
                /\ resp.kind = "ConfigError"

\* C6 witness: no lang in the request, a course with a lang: the course's
\* language is activated and the handler called.
C6_Witness ==
    /\ resp.view = "exercise"
    /\ resp.args.get.lang = ""
    /\ resp.kind = "exview"
    /\ Len(events) = 3
    /\ events[1] = [ev |-> "activate", arg |-> "sv"]
    /\ events[3].ev = "call"

\* C8: serving requests leaves the configuration as it was, and an
\* aplus_json request answers what the first one answered.
C8_ConfigUntouched ==
    /\ config = hist.config0
    /\ GotJson => resp.body = hist.json.body

\* C8 witness: aplus_json served again for a course whose module and child
\* both name a known type.
C8_Witness ==
    /\ GotJson
    /\ hist.json # None
    /\ hist.json.again
    /\ "modules" \in DOMAIN InputCourse
    /\ Len(InputCourse["modules"]) = 1
    /\ InputCourse["modules"][1]["type"] = "M1"
    /\ Len(resp.body["modules"][1]["children"]) = 1
    /\ "type" \in DOMAIN InputCourse["modules"][1]["children"][1]
    /\ InputCourse["modules"][1]["children"][1]["type"] = "T1"

(***************************************************************************)
(* test_result served by several handlers at once.  Nothing orders them:   *)
(* a POST opens the file (which truncates it) and writes its text when the *)
(* with block closes the file; a GET tests for the file and then reads it. *)
(***************************************************************************)
Handlers == {"h1", "h2"}

\* the requests posted while handlers overlap: a short and a long result
ConcForms == {<<>>, <<<<"points", "10">>>>}
ConcTime  == "12:00"

Idle == [pc |-> "idle", data |-> <<>>, exists |-> FALSE, after |-> FALSE]

InitConc ==
    /\ config = <<>>
    /\ file = [exists |-> FALSE, content |-> <<>>]
    /\ resp = NoResp
    /\ events = <<>>
    /\ hist = [begun |-> {}, completed |-> FALSE]
    /\ td = None
    /\ workers = [h \in Handlers |-> Idle]

\* POST, lines 198-200: vals built, the file opened with 'w'
PostOpen(h, form) ==
    /\ workers[h].pc = "idle"
    /\ LET data == JsonDumps(SetPair(form, "time", ConcTime))
       IN  /\ workers' = [workers EXCEPT ![h] = [Idle EXCEPT !.pc = "opened", !.data = data]]
           /\ hist' = [hist EXCEPT !.begun = @ \cup {data}]
    /\ file' = OpenWrite(file)
    /\ UNCHANGED <<config, resp, events, td>>

\* POST, lines 202-203: the text written and the file closed, the answer sent
PostWrite(h) ==
    /\ workers[h].pc = "opened"
    /\ file' = WriteAt0(file, workers[h].data)
    /\ workers' = [workers EXCEPT ![h] = Idle]
    /\ hist' = [hist EXCEPT !.completed = TRUE]
    /\ resp' = [view |-> "test_result", args |-> [method |-> "POST", after |-> FALSE],
                kind |-> "JsonResponse", body |-> [success |-> TRUE]]
    /\ UNCHANGED <<config, events, td>>

\* GET, line 205: os.path.exists(file_path)
GetExists(h) ==
    /\ workers[h].pc = "idle"
    /\ workers' = [workers EXCEPT ![h] = [Idle EXCEPT !.pc = "checked",
                                                      !.exists = file.exists,
                                                      !.after = hist.completed]]
    /\ UNCHANGED <<config, file, resp, events, hist, td>>

\* GET, lines 206-208: the file read if it existed, the answer sent
GetRead(h) ==
    /\ workers[h].pc = "checked"
    /\ workers' = [workers EXCEPT ![h] = Idle]
    /\ resp' = [view |-> "test_result",
                args |-> [method |-> "GET", after |-> workers[h].after],
                kind |-> "HttpResponse",
                body |-> ResultOrDefault(IF workers[h].exists
                                         THEN ReadResult(file).result
                                         ELSE None)]
    /\ UNCHANGED <<config, file, events, hist, td>>

NextConc ==
    \E h \in Handlers :
        \/ \E form \in ConcForms : PostOpen(h, form)
        \/ PostWrite(h)
        \/ GetExists(h)
        \/ GetRead(h)

SpecConc == InitConc /\ [][NextConc]_vars

\* C9 (the claim as worded): a GET that began after some POST had completed
\* answers the complete text of one POST, completed or in progress; never
\* 'No test result received yet.', never a mixed or cut text.
C9_NoLostArtifact ==
    (resp.view = "test_result" /\ resp.args.method = "GET" /\ resp.args.after)
        => resp.body \in hist.begun

====
